---- MODULE Spec2Model ----
(***************************************************************************)
(* Model of the configuration loader in config.go: one call of NewConfig   *)
(* against a process environment and an optional .env definitions file.    *)
(* Go strings are TLA+ strings, a Go map is a function whose DOMAIN is the  *)
(* set of keys present, a *Config is <<>> (nil) or <<c>>, and an error is   *)
(* <<>> (nil) or the sequence of its message layers, outermost first.       *)
(***************************************************************************)
EXTENDS Integers, Sequences, FiniteSets, TLC

\* ------------------------------------------------------------ bounds
\* Longest sequence of options passed to NewConfig.
MaxOpts == 2
\* Most keys given a value, counting the entries of the definitions file and
\* the variables set in the process environment together.
MaxEntries == 2

\* ------------------------------------------------------------ inputs
Keys == {"DATABASE_URL", "AUTH_SERVICE_URL", "DEBUG", "PORT"}

\* Values a line KEY=VALUE of the definitions file may give each key.
FileValues ==
    [key \in Keys |->
        CASE key = "DATABASE_URL"     -> {"", "postgres://file"}
          [] key = "AUTH_SERVICE_URL" -> {"", "http://auth.file"}
          [] key = "DEBUG"            -> {"", "notabool", "1"}
          [] key = "PORT"             -> {"", "9000"}]

\* Values the process environment may give each key.
EnvValues ==
    [key \in Keys |->
        CASE key = "DATABASE_URL"     -> {"", "postgres://env"}
          [] key = "AUTH_SERVICE_URL" -> {"", "http://auth.env"}
          [] key = "DEBUG"            -> {"", "true", "F", "yes"}
          [] key = "PORT"             -> {"", "7000"}]

\* Every map from at most MaxEntries of the keys to a value V allows the key.
Maps(V) ==
    {m \in UNION {[D -> UNION {V[k] : k \in Keys}] :
                      D \in {S \in SUBSET Keys : Cardinality(S) <= MaxEntries}} :
        \A k \in DOMAIN m : m[k] \in V[k]}

EmptyMap == [k \in {} |-> ""]

\* ------------------------------------------------------------ errors
NoErr == <<>>
ErrNotExist == <<"no such file or directory">>
ErrPermission == <<"permission denied">>
ErrMalformed == <<"unexpected character in variable name">>

\* fmt.Errorf(msg + ": %w", err)
Wrap(msg, err) == <<msg>> \o err

\* os.IsNotExist(err)
IsNotExist(err) == err = ErrNotExist

\* ------------------------------------------------------------ file
\* The definitions file as the file system holds it, at the path loadEnv
\* settles on (ENV_FILE, or ../../.env beside the source file): missing,
\* unreadable, unparsable, or holding a mapping.
Files ==
    {[state |-> "missing", content |-> EmptyMap],
     [state |-> "denied", content |-> EmptyMap],
     [state |-> "malformed", content |-> EmptyMap]}
    \cup {[state |-> "ok", content |-> m] : m \in Maps(FileValues)}

\* godotenv.Read(envFile): the parsed mapping, or the error of opening or
\* parsing the file.
GodotenvRead(f) ==
    CASE f.state = "ok"        -> [envs |-> f.content, err |-> NoErr]
      [] f.state = "missing"   -> [envs |-> EmptyMap, err |-> ErrNotExist]
      [] f.state = "denied"    -> [envs |-> EmptyMap, err |-> ErrPermission]
      [] f.state = "malformed" -> [envs |-> EmptyMap, err |-> ErrMalformed]

\* ------------------------------------------------------------ Config
Config(db, auth, debug, port) ==
    [DatabaseURL |-> db, AuthServiceURL |-> auth, Debug |-> debug, Port |-> port]

ZeroConfig == Config("", "", FALSE, "")

NilConfig == <<>>

\* ------------------------------------------------------------ Option
\* An Option is a func(*Config).  The four constructors are recorded by
\* name and argument; "func" is a closure written by the caller that
\* assigns a string field unconditionally.
WithDatabaseURL(url) == [name |-> "WithDatabaseURL", str |-> url, flag |-> FALSE]
WithAuthServiceURL(url) == [name |-> "WithAuthServiceURL", str |-> url, flag |-> FALSE]
WithDebug(debug) == [name |-> "WithDebug", str |-> "", flag |-> debug]
WithPort(port) == [name |-> "WithPort", str |-> port, flag |-> FALSE]
FuncSetDatabaseURL(url) == [name |-> "func:DatabaseURL", str |-> url, flag |-> FALSE]
FuncSetAuthServiceURL(url) == [name |-> "func:AuthServiceURL", str |-> url, flag |-> FALSE]

Named ==
    {WithDatabaseURL(u) : u \in {"", "postgres://x"}}
    \cup {WithAuthServiceURL(u) : u \in {"", "http://auth.opt"}}
    \cup {WithDebug(b) : b \in BOOLEAN}
    \cup {WithPort(p) : p \in {"", "8000"}}

Options == Named \cup {FuncSetDatabaseURL(""), FuncSetAuthServiceURL("")}

\* Variants with a slip: the string constructors assign without testing for
\* the empty string; WithDatabaseURL assigns the wrong field; WithDebug only
\* ever switches debugging on.
Apply_NoEmptyTest(opt, c) ==
    CASE opt.name = "WithDatabaseURL" -> [c EXCEPT !.DatabaseURL = opt.str]
      [] opt.name = "WithAuthServiceURL" -> [c EXCEPT !.AuthServiceURL = opt.str]
      [] opt.name = "WithDebug" -> [c EXCEPT !.Debug = opt.flag]
      [] opt.name = "WithPort" -> [c EXCEPT !.Port = opt.str]
      [] opt.name = "func:DatabaseURL" -> [c EXCEPT !.DatabaseURL = opt.str]
      [] opt.name = "func:AuthServiceURL" -> [c EXCEPT !.AuthServiceURL = opt.str]

Apply_WrongField(opt, c) ==
    CASE opt.name = "WithDatabaseURL" ->
            IF opt.str # "" THEN [c EXCEPT !.AuthServiceURL = opt.str] ELSE c
      [] opt.name = "WithAuthServiceURL" ->
            IF opt.str # "" THEN [c EXCEPT !.AuthServiceURL = opt.str] ELSE c
      [] opt.name = "WithDebug" -> [c EXCEPT !.Debug = opt.flag]
      [] opt.name = "WithPort" ->
            IF opt.str # "" THEN [c EXCEPT !.Port = opt.str] ELSE c
      [] opt.name = "func:DatabaseURL" -> [c EXCEPT !.DatabaseURL = opt.str]
      [] opt.name = "func:AuthServiceURL" -> [c EXCEPT !.AuthServiceURL = opt.str]

Apply_DebugOnlyOn(opt, c) ==
    CASE opt.name = "WithDatabaseURL" ->
            IF opt.str # "" THEN [c EXCEPT !.DatabaseURL = opt.str] ELSE c
      [] opt.name = "WithAuthServiceURL" ->
            IF opt.str # "" THEN [c EXCEPT !.AuthServiceURL = opt.str] ELSE c
      [] opt.name = "WithDebug" -> IF opt.flag THEN [c EXCEPT !.Debug = TRUE] ELSE c
      [] opt.name = "WithPort" ->
            IF opt.str # "" THEN [c EXCEPT !.Port = opt.str] ELSE c
      [] opt.name = "func:DatabaseURL" -> [c EXCEPT !.DatabaseURL = opt.str]
      [] opt.name = "func:AuthServiceURL" -> [c EXCEPT !.AuthServiceURL = opt.str]

\* opt(c): the configuration after the option ran on c.
Apply(opt, c) ==
    CASE opt.name = "WithDatabaseURL" ->
            IF opt.str # "" THEN [c EXCEPT !.DatabaseURL = opt.str] ELSE c
      [] opt.name = "WithAuthServiceURL" ->
            IF opt.str # "" THEN [c EXCEPT !.AuthServiceURL = opt.str] ELSE c
      [] opt.name = "WithDebug" -> [c EXCEPT !.Debug = opt.flag]
      [] opt.name = "WithPort" ->
            IF opt.str # "" THEN [c EXCEPT !.Port = opt.str] ELSE c
      [] opt.name = "func:DatabaseURL" -> [c EXCEPT !.DatabaseURL = opt.str]
      [] opt.name = "func:AuthServiceURL" -> [c EXCEPT !.AuthServiceURL = opt.str]

\* ------------------------------------------------------------ lookups
\* value, exists := m[key]  and  os.LookupEnv(key)
Lookup(m, key) ==
    IF key \in DOMAIN m THEN [value |-> m[key], exists |-> TRUE]
    ELSE [value |-> "", exists |-> FALSE]

\* Variants of getEnvWithFallback with a slip in them, for checking that the
\* properties below depend on it: the environment consulted before the file,
\* the emptiness test of the file's value left out, the fallback forgotten.
getEnvWithFallback_EnvFirst(envs, env, key, fallback) ==
    IF Lookup(env, key).exists /\ Lookup(env, key).value # ""
    THEN Lookup(env, key).value
    ELSE IF Lookup(envs, key).exists /\ Lookup(envs, key).value # ""
         THEN Lookup(envs, key).value
         ELSE fallback

getEnvWithFallback_NoEmptyTest(envs, env, key, fallback) ==
    IF Lookup(envs, key).exists
    THEN Lookup(envs, key).value
    ELSE IF Lookup(env, key).exists /\ Lookup(env, key).value # ""
         THEN Lookup(env, key).value
         ELSE fallback

getEnvWithFallback_NoFallback(envs, env, key, fallback) ==
    IF Lookup(envs, key).exists /\ Lookup(envs, key).value # ""
    THEN Lookup(envs, key).value
    ELSE Lookup(env, key).value

getEnvWithFallback(envs, env, key, fallback) ==
    IF Lookup(envs, key).exists /\ Lookup(envs, key).value # ""
    THEN Lookup(envs, key).value
    ELSE IF Lookup(env, key).exists /\ Lookup(env, key).value # ""
         THEN Lookup(env, key).value
         ELSE fallback

\* strconv.FormatBool
FormatBool(b) == IF b THEN "true" ELSE "false"

\* strconv.ParseBool: the value and whether the string is an accepted spelling
ParseBool(s) ==
    IF s \in {"1", "t", "T", "TRUE", "true", "True"}
    THEN [value |-> TRUE, ok |-> TRUE]
    ELSE IF s \in {"0", "f", "F", "FALSE", "false", "False"}
         THEN [value |-> FALSE, ok |-> TRUE]
         ELSE [value |-> FALSE, ok |-> FALSE]

\* Variant with a slip: a value of the file that is no boolean is passed
\* over and the environment's value parsed instead.
getBoolEnvWithFallback_SkipInvalid(envs, env, key, fallback) ==
    LET strValue == getEnvWithFallback(envs, env, key, FormatBool(fallback))
        nextValue == getEnvWithFallback(EmptyMap, env, key, FormatBool(fallback))
    IN  IF ParseBool(strValue).ok THEN ParseBool(strValue).value
        ELSE IF ParseBool(nextValue).ok THEN ParseBool(nextValue).value
        ELSE fallback

getBoolEnvWithFallback(envs, env, key, fallback) ==
    LET strValue == getEnvWithFallback(envs, env, key, FormatBool(fallback))
    IN  IF ~ParseBool(strValue).ok THEN fallback ELSE ParseBool(strValue).value

\* Variant with a slip: every error of reading the file is taken for a
\* missing file.
loadEnv_AnyErrorIsMissing(f) ==
    LET r == GodotenvRead(f)
    IN  IF r.err # NoErr
        THEN [envs |-> EmptyMap, err |-> NoErr]
        ELSE [envs |-> r.envs, err |-> NoErr]

\* loadEnv(): godotenv.Read of the file; a missing file is an empty mapping.
loadEnv(f) ==
    LET r == GodotenvRead(f)
    IN  IF r.err # NoErr
        THEN IF IsNotExist(r.err)
             THEN [envs |-> EmptyMap, err |-> NoErr]
             ELSE [envs |-> EmptyMap, err |-> Wrap("error reading .env file", r.err)]
        ELSE [envs |-> r.envs, err |-> NoErr]

\* Variants with a slip: AuthServiceURL not checked; the two checks in the
\* other order.
validate_DatabaseOnly(c) ==
    IF c.DatabaseURL = "" THEN <<"DATABASE_URL is not set">>
    ELSE NoErr

validate_AuthFirst(c) ==
    IF c.AuthServiceURL = "" THEN <<"AUTH_SERVICE_URL is not set">>
    ELSE IF c.DatabaseURL = "" THEN <<"DATABASE_URL is not set">>
    ELSE NoErr

\* c.validate()
validate(c) ==
    IF c.DatabaseURL = "" THEN <<"DATABASE_URL is not set">>
    ELSE IF c.AuthServiceURL = "" THEN <<"AUTH_SERVICE_URL is not set">>
    ELSE NoErr

\* ------------------------------------------------------------ state
VARIABLES
    osenv,   \* the process environment
    file,    \* the definitions file
    pc,      \* position of the call of NewConfig
    opts,    \* the options passed to NewConfig
    envs,    \* the mapping loadEnv returned
    c,       \* the configuration under construction
    i,       \* number of options that have run
    ret      \* what NewConfig returned: [cfg, err]

vars == <<osenv, file, pc, opts, envs, c, i, ret>>

OptSeqs == UNION {[1..n -> Options] : n \in 0..MaxOpts}

Init ==
    /\ osenv \in Maps(EnvValues)
    /\ file \in Files
    /\ Cardinality(DOMAIN osenv) + Cardinality(DOMAIN file.content) <= MaxEntries
    /\ pc = "idle"
    /\ opts = <<>>
    /\ envs = EmptyMap
    /\ c = ZeroConfig
    /\ i = 0
    /\ ret = [cfg |-> NilConfig, err |-> NoErr]

\* NewConfig(opts...) is called.
Call ==
    /\ pc = "idle"
    /\ \E o \in OptSeqs : opts' = o
    /\ pc' = "loadEnv"
    /\ UNCHANGED <<osenv, file, envs, c, i, ret>>

\* envs, err := loadEnv(); an error is returned wrapped.
LoadEnv ==
    /\ pc = "loadEnv"
    /\ LET r == loadEnv(file)
       IN  IF r.err # NoErr
           THEN /\ ret' = [cfg |-> NilConfig,
                           err |-> Wrap("failed to load environment", r.err)]
                /\ pc' = "returned"
                /\ UNCHANGED envs
           ELSE /\ envs' = r.envs
                /\ pc' = "resolve"
                /\ UNCHANGED ret
    /\ UNCHANGED <<osenv, file, opts, c, i>>

\* c := &Config{...}
Resolve ==
    /\ pc = "resolve"
    /\ c' = Config(getEnvWithFallback(envs, osenv, "DATABASE_URL", ""),
                   getEnvWithFallback(envs, osenv, "AUTH_SERVICE_URL", "http://localhost:8080"),
                   getBoolEnvWithFallback(envs, osenv, "DEBUG", FALSE),
                   getEnvWithFallback(envs, osenv, "PORT", "8092"))
    /\ pc' = "options"
    /\ UNCHANGED <<osenv, file, opts, envs, i, ret>>

\* one iteration of: for _, opt := range opts { opt(c) }
ApplyOption ==
    /\ pc = "options"
    /\ i < Len(opts)
    /\ c' = Apply(opts[i + 1], c)
    /\ i' = i + 1
    /\ UNCHANGED <<osenv, file, pc, opts, envs, ret>>

\* the loop is over: validate and return
Validate ==
    /\ pc = "options"
    /\ i = Len(opts)
    /\ ret' = IF validate(c) # NoErr
              THEN [cfg |-> NilConfig, err |-> validate(c)]
              ELSE [cfg |-> <<c>>, err |-> NoErr]
    /\ pc' = "returned"
    /\ UNCHANGED <<osenv, file, opts, envs, c, i>>

Next == Call \/ LoadEnv \/ Resolve \/ ApplyOption \/ Validate

Spec == Init /\ [][Next]_vars

\* ------------------------------------------------------------ properties
\* Vocabulary of the properties below.

\* key is present in m with a non-empty value
Has(m, key) == key \in DOMAIN m /\ m[key] # ""

\* the call has resolved the four fields and no option has run yet
AtResolved == pc = "options" /\ i = 0

\* loadEnv returned a mapping: the file was read, or it does not exist
LoadOK == file.state \in {"ok", "missing"}

StringKeys == {"DATABASE_URL", "AUTH_SERVICE_URL", "PORT"}

FieldOfKey(key) ==
    CASE key = "DATABASE_URL"     -> "DatabaseURL"
      [] key = "AUTH_SERVICE_URL" -> "AuthServiceURL"
      [] key = "DEBUG"            -> "Debug"
      [] key = "PORT"             -> "Port"

\* the fallback string NewConfig passes for each key, as documented
DocumentedDefault(key) ==
    CASE key = "DATABASE_URL"     -> ""
      [] key = "AUTH_SERVICE_URL" -> "http://localhost:8080"
      [] key = "DEBUG"            -> "false"
      [] key = "PORT"             -> "8092"

TrueSpellings == {"1", "t", "T", "TRUE", "true", "True"}
FalseSpellings == {"0", "f", "F", "FALSE", "false", "False"}

TypeOK ==
    /\ pc \in {"idle", "loadEnv", "resolve", "options", "returned"}
    /\ i \in 0..Len(opts)
    /\ Len(opts) <= MaxOpts

\* ---- C1
\* C1 as stated: when the file mapping and the process environment both give
\* a key a non-empty value, getEnvWithFallback returns the file's value f and
\* the field resolved from the key is f; for DEBUG, "is f" is read as: f is a
\* boolean spelling and Debug is the boolean it spells.
C1_FieldIsFileValue ==
    AtResolved =>
        \A k \in Keys :
            (Has(envs, k) /\ Has(osenv, k)) =>
                /\ getEnvWithFallback(envs, osenv, k, DocumentedDefault(k)) = envs[k]
                /\ k \in StringKeys => c[FieldOfKey(k)] = envs[k]
                /\ k = "DEBUG" =>
                      \/ envs[k] \in TrueSpellings /\ c.Debug = TRUE
                      \/ envs[k] \in FalseSpellings /\ c.Debug = FALSE

\* C1 amended: getEnvWithFallback returns the file's value f for all four
\* keys; the three string fields are f and differ from the environment's
\* value; Debug is the boolean f spells, or false when f spells none, whatever
\* the environment holds.
C1_FilePrecedence ==
    AtResolved =>
        \A k \in Keys :
            (Has(envs, k) /\ Has(osenv, k)) =>
                /\ getEnvWithFallback(envs, osenv, k, DocumentedDefault(k)) = envs[k]
                /\ k \in StringKeys =>
                      /\ c[FieldOfKey(k)] = envs[k]
                      /\ envs[k] # osenv[k] => c[FieldOfKey(k)] # osenv[k]
                /\ k = "DEBUG" => c.Debug = (envs[k] \in TrueSpellings)

C1_Witness ==
    /\ AtResolved
    /\ Has(envs, "PORT") /\ Has(osenv, "PORT")
    /\ envs["PORT"] # osenv["PORT"]
    /\ c.Port = envs["PORT"]

\* ---- C2
\* C2: when the file mapping holds a key with the empty string,
\* getEnvWithFallback returns the environment's value if that is non-empty
\* and the fallback if the environment's value is empty or unset, for every
\* fallback; the field NewConfig resolves follows, so the empty entry never
\* stands in for a non-empty lower source.
Fallbacks == {"", "http://localhost:8080", "false", "8092"}

C2_EmptyFileValueSkipped ==
    AtResolved =>
        \A k \in Keys :
            (k \in DOMAIN envs /\ envs[k] = "") =>
                /\ \A fb \in Fallbacks :
                      getEnvWithFallback(envs, osenv, k, fb) =
                          IF Has(osenv, k) THEN osenv[k] ELSE fb
                /\ k \in StringKeys =>
                      c[FieldOfKey(k)] =
                          IF Has(osenv, k) THEN osenv[k] ELSE DocumentedDefault(k)
                /\ k = "DEBUG" =>
                      c.Debug = (Has(osenv, k) /\ osenv[k] \in TrueSpellings)

C2_Witness ==
    /\ AtResolved
    /\ "PORT" \in DOMAIN envs /\ envs["PORT"] = ""
    /\ Has(osenv, "PORT")
    /\ c.Port = osenv["PORT"]

\* ---- C3
\* C3: a key absent from both the file mapping and the process environment
\* leaves its field at the documented default: AuthServiceURL
\* "http://localhost:8080", Port "8092", Debug false, DatabaseURL "".
Absent(key) == key \notin DOMAIN envs /\ key \notin DOMAIN osenv

C3_Defaults ==
    AtResolved =>
        /\ Absent("DATABASE_URL") => c.DatabaseURL = ""
        /\ Absent("AUTH_SERVICE_URL") => c.AuthServiceURL = "http://localhost:8080"
        /\ Absent("DEBUG") => c.Debug = FALSE
        /\ Absent("PORT") => c.Port = "8092"

C3_Witness ==
    /\ AtResolved
    /\ \A k \in Keys : Absent(k)
    /\ c = Config("", "http://localhost:8080", FALSE, "8092")

\* ---- C4
\* C4: a missing definitions file is an empty mapping and no error, and the
\* call goes on to resolve from the environment and the defaults; a file
\* that cannot be read or parsed ends the call with the error wrapped twice,
\* no configuration, no field resolved, no option run and no validation.
EnvOnly(key) == IF Has(osenv, key) THEN osenv[key] ELSE DocumentedDefault(key)

C4_FileLoadOutcomes ==
    /\ (file.state = "missing" /\ pc \notin {"idle", "loadEnv"}) =>
          /\ envs = EmptyMap
          /\ loadEnv(file).err = NoErr
          /\ pc = "returned" => i = Len(opts) /\ Len(ret.err) <= 1
          /\ pc \in {"options", "returned"} /\ i = 0 =>
                /\ \A k \in StringKeys : c[FieldOfKey(k)] = EnvOnly(k)
                /\ c.Debug = (EnvOnly("DEBUG") \in TrueSpellings)
    /\ file.state \in {"denied", "malformed"} =>
          /\ pc \in {"idle", "loadEnv", "returned"}
          /\ c = ZeroConfig /\ i = 0
          /\ pc = "returned" =>
                /\ ret.cfg = NilConfig
                /\ Len(ret.err) = 3
                /\ ret.err[1] = "failed to load environment"
                /\ ret.err[2] = "error reading .env file"
                /\ ret.err[3] = GodotenvRead(file).err[1]

C4_Witness ==
    /\ pc = "returned"
    /\ file.state = "malformed"
    /\ Len(opts) > 0
    /\ ret.err = <<"failed to load environment", "error reading .env file",
                   "unexpected character in variable name">>

\* ---- C5
\* NewConfig got past loadEnv and has returned.
Returned == pc = "returned" /\ LoadOK

DatabaseUnset == ~Has(envs, "DATABASE_URL") /\ ~Has(osenv, "DATABASE_URL")

\* the option assigns a non-empty DatabaseURL
SetsDatabaseURL(o) == o.name \in {"WithDatabaseURL", "func:DatabaseURL"} /\ o.str # ""

ErrDatabase == <<"DATABASE_URL is not set">>
ErrAuth == <<"AUTH_SERVICE_URL is not set">>

\* first half of C5: DATABASE_URL given by neither source and by no option
C5_Missing ==
    (Returned /\ DatabaseUnset /\ \A j \in 1..Len(opts) : ~SetsDatabaseURL(opts[j])) =>
        ret = [cfg |-> NilConfig, err |-> ErrDatabase]

\* C5 as stated: with DATABASE_URL given by neither source and by no option
\* the call fails with "DATABASE_URL is not set" and no configuration, and
\* the same call with WithDatabaseURL(v), v non-empty, among the options
\* succeeds with DatabaseURL = v.
C5_AddedOverrideSucceeds ==
    /\ C5_Missing
    /\ (Returned /\ DatabaseUnset) =>
          \A j \in 1..Len(opts) :
              ( /\ opts[j].name = "WithDatabaseURL" /\ opts[j].str # ""
                /\ \A k \in 1..Len(opts) : k # j => ~SetsDatabaseURL(opts[k]) ) =>
                  /\ ret.err = NoErr
                  /\ ret.cfg = <<c>>
                  /\ c.DatabaseURL = opts[j].str

\* C5 amended: the first half as stated; the call with WithDatabaseURL(v)
\* added succeeds with DatabaseURL = v provided no option after it assigns
\* DatabaseURL and AuthServiceURL is non-empty once the options have run.
C5_RequiredDatabaseURL ==
    /\ C5_Missing
    /\ (Returned /\ DatabaseUnset) =>
          \A j \in 1..Len(opts) :
              ( /\ opts[j].name = "WithDatabaseURL" /\ opts[j].str # ""
                /\ \A k \in 1..Len(opts) : k # j => ~SetsDatabaseURL(opts[k])
                /\ \A k \in (j + 1)..Len(opts) : opts[k].name # "func:DatabaseURL"
                /\ c.AuthServiceURL # "" ) =>
                  /\ ret.err = NoErr
                  /\ ret.cfg = <<c>>
                  /\ c.DatabaseURL = opts[j].str

C5_Witness ==
    /\ Returned /\ DatabaseUnset
    /\ Len(opts) = 2
    /\ opts[1] = WithPort("8000")
    /\ opts[2] = WithDatabaseURL("postgres://x")
    /\ ret.err = NoErr
    /\ ret.cfg[1].DatabaseURL = "postgres://x"

\* ---- C6
Fields == {"DatabaseURL", "AuthServiceURL", "Debug", "Port"}

\* the field an option is for, and the argument it was made with
FieldOfOption(o) ==
    CASE o.name \in {"WithDatabaseURL", "func:DatabaseURL"}       -> "DatabaseURL"
      [] o.name \in {"WithAuthServiceURL", "func:AuthServiceURL"} -> "AuthServiceURL"
      [] o.name = "WithDebug"                                     -> "Debug"
      [] o.name = "WithPort"                                      -> "Port"

Arg(o) == IF o.name = "WithDebug" THEN o.flag ELSE o.str

\* the indices, among the first n options, of those for field f
For(f, n) == {k \in 1..n : FieldOfOption(opts[k]) = f}

Max(S) == CHOOSE x \in S : \A y \in S : y <= x

\* C6 as stated: of two overrides for the same field, the later determines
\* the field's final value, whatever the two arguments, the empty string
\* included.
C6_LaterDetermines ==
    (pc = "options" /\ i = Len(opts)) =>
        \A f \in Fields :
            Cardinality(For(f, i)) >= 2 => c[f] = Arg(opts[Max(For(f, i))])

\* the value the field has once the fields are resolved, from the sources
SourceValue(key) == IF Has(envs, key) THEN envs[key] ELSE EnvOnly(key)

ResolvedField(f) ==
    CASE f = "DatabaseURL"    -> SourceValue("DATABASE_URL")
      [] f = "AuthServiceURL" -> SourceValue("AUTH_SERVICE_URL")
      [] f = "Debug"          -> SourceValue("DEBUG") \in TrueSpellings
      [] f = "Port"           -> SourceValue("PORT")

\* a string constructor given "" assigns nothing; every other option assigns
Assigns(o) == o.name \in {"WithDebug", "func:DatabaseURL", "func:AuthServiceURL"} \/ o.str # ""

\* C6 amended: the options run in the order given, after the fields are
\* resolved: once the first n have run, a field with two or more overrides
\* among them has the argument of the latest one that assigns, where a
\* string constructor given the empty string assigns nothing and leaves the
\* earlier value (the resolved one, if none assigns).
C6_LatestAssigningDetermines ==
    pc = "options" =>
        \A f \in Fields :
            Cardinality(For(f, i)) >= 2 =>
                LET A == {k \in For(f, i) : Assigns(opts[k])}
                IN  IF A = {} THEN c[f] = ResolvedField(f)
                    ELSE c[f] = Arg(opts[Max(A)])

C6_Witness ==
    /\ pc = "options" /\ i = 2 /\ Len(opts) = 2
    /\ opts[1] = WithPort("8000")
    /\ opts[2] = WithPort("")
    /\ c.Port = "8000"

\* ---- C7
\* C7: when the string resolved for DEBUG (the file's value if non-empty,
\* else the environment's if non-empty, else "false") is no boolean
\* spelling, Debug is the fallback false, also when the file's value is the
\* invalid one and the environment holds a valid one; and the call does not
\* fail over it: it goes on to the options and fails only in validate.
C7_BadBooleanIsFallback ==
    /\ (AtResolved /\ SourceValue("DEBUG") \notin TrueSpellings \cup FalseSpellings) =>
          c.Debug = FALSE
    /\ (LoadOK /\ pc \notin {"idle", "loadEnv"}
           /\ SourceValue("DEBUG") \notin TrueSpellings \cup FalseSpellings) =>
          /\ pc = "returned" => ret.err \in {NoErr, ErrDatabase, ErrAuth}
          /\ (pc = "returned" /\ c.DatabaseURL # "" /\ c.AuthServiceURL # "") =>
                ret.err = NoErr

C7_Witness ==
    /\ AtResolved
    /\ Has(envs, "DEBUG") /\ envs["DEBUG"] = "notabool"
    /\ Has(osenv, "DEBUG") /\ osenv["DEBUG"] = "true"
    /\ c.Debug = FALSE

\* ---- C8
\* C8: whatever the file, the environment and the options, named or written
\* by the caller: a configuration returned without error has a non-empty
\* DatabaseURL and a non-empty AuthServiceURL, and an error comes with no
\* configuration.
C8_PostConstruction ==
    pc = "returned" =>
        /\ ret.err = NoErr =>
              /\ ret.cfg # NilConfig
              /\ ret.cfg[1].DatabaseURL # ""
              /\ ret.cfg[1].AuthServiceURL # ""
        /\ ret.err # NoErr => ret.cfg = NilConfig

C8_Witness ==
    /\ pc = "returned"
    /\ ret.err = NoErr
    /\ ret.cfg # NilConfig
    /\ \E j \in 1..Len(opts) : opts[j].name = "func:DatabaseURL"
    /\ ret.cfg[1].DatabaseURL # ""

\* ---- C9
Others(f, before, after) == \A g \in Fields \ {f} : after[g] = before[g]

Effect(o, before, after) ==
    /\ o.name \in {"WithDatabaseURL", "WithAuthServiceURL", "WithPort"} =>
          /\ o.str = "" => after = before
          /\ o.str # "" => after[FieldOfOption(o)] = o.str
          /\ Others(FieldOfOption(o), before, after)
    /\ o.name = "WithDebug" =>
          /\ after.Debug = o.flag
          /\ Others("Debug", before, after)

\* C9: in every step that runs one of the four named constructors,
\* WithDatabaseURL, WithAuthServiceURL and WithPort assign their field when
\* their string is non-empty and leave the configuration as it is when it is
\* empty, WithDebug assigns Debug always, and the other three fields keep
\* their values.
C9_NamedConstructors ==
    [][(pc = "options" /\ i' = i + 1 /\ opts[i + 1] \in Named) =>
          Effect(opts[i + 1], c, c')]_vars

C9_Witness ==
    /\ pc = "options" /\ i = 1
    /\ opts[1] = WithDebug(FALSE)
    /\ Has(envs, "DEBUG") /\ envs["DEBUG"] = "1"
    /\ c.Debug = FALSE

\* ---- C10
\* C10: NewConfig returns "AUTH_SERVICE_URL is not set" exactly when the
\* options have all run and left DatabaseURL non-empty and AuthServiceURL
\* empty; with both empty the error is the one for DATABASE_URL; resolving
\* never leaves AuthServiceURL empty.
C10_AuthServiceURLValidation ==
    /\ pc = "returned" =>
          (ret.err = ErrAuth <=>
              (LoadOK /\ i = Len(opts) /\ c.DatabaseURL # "" /\ c.AuthServiceURL = ""))
    /\ (Returned /\ c.DatabaseURL = "" /\ c.AuthServiceURL = "") =>
          ret.err = ErrDatabase
    /\ AtResolved => c.AuthServiceURL # ""

C10_Witness ==
    /\ pc = "returned"
    /\ ret = [cfg |-> NilConfig, err |-> ErrAuth]
    /\ \E j \in 1..Len(opts) : opts[j] = FuncSetAuthServiceURL("")

====
